---- MODULE Spec2Model ----
(***************************************************************************)
(* Model of pypokerstar: the game model (Bet, Round, Hand), the            *)
(* PokerStars hand-history parser (PokerStarsParser.parse) and the         *)
(* History aggregation (get_money_history, get_main_stats).                *)
(*                                                                         *)
(* Amounts are floats in the source; the model uses integers (cents).      *)
(* A Player is identified by its name (Player.__eq__ / __hash__ compare    *)
(* the name only), so a player reference is the name string; a Bet also    *)
(* records whether its Player object is the one of the seat list.          *)
(***************************************************************************)
EXTENDS Integers, Sequences, FiniteSets, TLC

\* ----------------------------------------------------------------------
\* Bounds of the model
\* ----------------------------------------------------------------------
MaxBets == 3      \* actions added to the streets of the hand
MaxBlocks == 2    \* blocks in one input batch of parse

VARIABLES
    hand,          \* the Hand object (its Round objects inside)
    lastOp,        \* the operation that was applied last to the hand
    hist,          \* a History object built over the hand
    per_hand_rows, \* module-level list poker.per_hand_rows
    memo,          \* functools.cache of History.get_main_stats
    out,           \* value returned by the last History call
    batch,         \* parse: the blocks of the input, in order
    skipT,         \* parse: the skip_tournaments argument
    idx,           \* parse: index of the block the loop is at
    results,       \* parse: the local list `results`; the hands given to History
    failed,        \* parse: self.failed
    pc,            \* parse: "loop" while iterating, "done" once returned
    rnd,           \* _parse_round: the round being filled, row by row
    cardIO,        \* cards.py: the cards, the text and the values computed last
    heap           \* the list objects that History and Round objects refer to

handVars == <<hand, lastOp>>
histVars == <<hist, per_hand_rows, memo, out>>
libVars == <<cardIO, heap>>
parseVars == <<batch, skipT, idx, results, failed, pc, rnd, libVars>>
vars == <<hand, lastOp, hist, per_hand_rows, memo, out,
          batch, skipT, idx, results, failed, pc, rnd, cardIO, heap>>

None == "None"

\* a DataFrame attribute that is None, and one that holds rows
NoFrame == [none |-> TRUE, rows |-> <<>>]
Frame(rows) == [none |-> FALSE, rows |-> rows]

\* ----------------------------------------------------------------------
\* Generic helpers
\* ----------------------------------------------------------------------
Max(a, b) == IF a >= b THEN a ELSE b

RECURSIVE SumSeq(_)
SumSeq(s) == IF s = <<>> THEN 0 ELSE Head(s) + SumSeq(Tail(s))

RECURSIVE Concat(_)
Concat(ss) == IF ss = <<>> THEN <<>> ELSE Head(ss) \o Concat(Tail(ss))

Range(s) == {s[i] : i \in DOMAIN s}

\* ----------------------------------------------------------------------
\* poker.py: ROUNDS, Bet, Round
\* ----------------------------------------------------------------------
\* str.lower() on the street names the model uses
Lower(name) ==
    CASE name = "HOLE CARDS" -> "hole cards"
      [] name = "Hole Cards" -> "hole cards"
      [] name = "Summary" -> "summary"
      [] name = "SUMMARY" -> "summary"
      [] name = "FLOP" -> "flop"
      [] name = "Flop" -> "flop"
      [] name = "Turn" -> "turn"
      [] name = "RIVER" -> "river"
      [] name = "Show Down" -> "show down"
      [] name = "TABLE" -> "table"
      [] name = "BONUS" -> "bonus"
      [] name = "Preflop" -> "preflop"
      [] OTHER -> name

ValidRoundNames ==
    {"hole cards", "flop", "turn", "river", "show down", "table", "summary"}

ROUNDS(name) ==
    CASE name = "table" -> 0
      [] name = "hole cards" -> 1
      [] name = "flop" -> 2
      [] name = "turn" -> 3
      [] name = "river" -> 4
      [] name = "show down" -> 5
      [] name = "summary" -> 6

\* Player.__init__; cards is <<>> while the hole cards are unknown (None)
Player(name, pot, seat, cards) ==
    [name |-> name, pot |-> pot, seat |-> seat, cards |-> cards]

\* Bet.__init__ with a Player object of the seat list (the canonical one of
\* its name): fresh = FALSE
Bet(player, bet_type, amount) ==
    [player |-> player, type |-> bet_type, amount |-> amount, fresh |-> FALSE]

\* Bet(player=Player(name=name), ...): the Player object is a new one, with
\* the defaults of Player.__init__ (cards None)
BetOfNewPlayer(name, bet_type, amount) ==
    [player |-> name, type |-> bet_type, amount |-> amount, fresh |-> TRUE]

\* Round.__init__ after the name check: no bets, pot 0, no board, no winner,
\* game_type "cash"
NewRound(name) ==
    [name |-> name, bets |-> <<>>, pot |-> 0, board |-> <<>>,
     winner |-> <<>>, game_type |-> "cash"]

\* RoundNameOk comparing the name as it is written
RoundNameOkAsWritten(name) == name \in ValidRoundNames

\* the name check of Round.__init__: name.lower() is one of the seven
RoundNameOk(name) == Lower(name) \in ValidRoundNames

\* Round.add_bet
RoundAddBet(r, bet) ==
    [r EXCEPT !.bets = Append(@, bet), !.pot = @ + bet.amount]

\* Round.set_winner
RoundSetWinner(r, player) == [r EXCEPT !.winner = Append(@, player)]

\* ----------------------------------------------------------------------
\* poker.py: Hand
\* ----------------------------------------------------------------------
\* sorted(rounds, key=ROUNDS[name.lower()]): stable insertion sort
RECURSIVE InsertRound(_, _)
InsertRound(sorted, r) ==
    IF sorted = <<>> THEN <<r>>
    ELSE IF ROUNDS(Lower(Head(sorted).name)) <= ROUNDS(Lower(r.name))
         THEN <<Head(sorted)>> \o InsertRound(Tail(sorted), r)
         ELSE <<r>> \o sorted

\* SortRounds with the streets kept in the order they were given
SortRoundsAsGiven(rs) == rs

RECURSIVE SortRounds(_)
SortRounds(rs) ==
    IF rs = <<>> THEN <<>>
    ELSE InsertRound(SortRounds(SubSeq(rs, 1, Len(rs) - 1)), rs[Len(rs)])

\* Hand.get_round: rounds_map is {r.name.lower(): r for r in rounds}, so of
\* several rounds with one name the last one is found; 0 stands for None
GetRound(h, name) ==
    LET hits == {i \in DOMAIN h.rounds : Lower(h.rounds[i].name) = Lower(name)}
    IN IF hits = {} THEN 0 ELSE CHOOSE i \in hits : \A j \in hits : j <= i

\* AppendWinners with every winner of the round appended
AppendWinnersAll(ws, new) == ws \o new

\* the winners loop of Hand.refresh for one round: a winner is appended
\* unless a winner of that name is there already
RECURSIVE AppendWinners(_, _)
AppendWinners(ws, new) ==
    IF new = <<>> THEN ws
    ELSE AppendWinners(IF Head(new) \in Range(ws) THEN ws
                       ELSE Append(ws, Head(new)), Tail(new))

\* Hand.refresh, the loop over self.rounds from round i on.  Card defines
\* __eq__ and no __hash__, so `card not in self._board_set` raises TypeError
\* for the first card of the first round that has a board; what the loop
\* did before that point stays.
RECURSIVE RefreshFrom(_, _)
RefreshFrom(h, i) ==
    IF i > Len(h.rounds) THEN [h |-> h, raised |-> FALSE]
    ELSE LET r == h.rounds[i]
             h1 == IF r.game_type = "tournament"
                   THEN [h EXCEPT !.game_type = "tournament"] ELSE h
         IN IF r.board # <<>> THEN [h |-> h1, raised |-> TRUE]
            ELSE RefreshFrom([h1 EXCEPT !.winner = AppendWinners(@, r.winner)],
                             i + 1)

\* Refresh with the winners found by the loop appended to the winners the
\* hand had, whatever their names
RefreshAppendingWinners(h) ==
    [h |-> [RefreshFrom(h, 1).h EXCEPT !.winner = h.winner \o @],
     raised |-> RefreshFrom(h, 1).raised]

\* Hand.refresh.  The hero is re-pointed to the canonical Player of its name
\* (the same name), and the cards of the players listed in the show-down
\* Round.players are copied to the canonical players; the parser and the
\* model never fill Round.players, so that loop has nothing to visit.
Refresh(h) == RefreshFrom(h, 1)

\* Hand.__init__: rounds sorted by ROUNDS, empty caches, then refresh()
NewHand(id, players, rounds, hero, date, pot, rake) ==
    Refresh([id |-> id, players |-> players, game_type |-> "cash",
             pot |-> pot, rake |-> rake, date |-> date, hero |-> hero,
             board |-> <<>>, winner |-> <<>>, rounds |-> SortRounds(rounds),
             result |-> <<>>])

PlayerNames(h) == {h.players[i].name : i \in DOMAIN h.players}

\* the second definition of Hand.__get_player_bets (it replaces the first):
\* the bets of all rounds whose player equals the given player
PlayerBets(h, player) ==
    LET all == Concat([i \in DOMAIN h.rounds |-> h.rounds[i].bets])
        Mine(b) == b.player = player
    IN SelectSeq(all, Mine)

TotalBetAdd(b) == IF b.type # "collected" THEN b.amount ELSE 0

\* Hand.result, the computation under `if not self._result` after refresh():
\* tmp[name] = -sum of the non-collected amounts of the player; then the
\* collected bets of the "summary" round are added to tmp by name; names
\* outside players_map are dropped
SummaryCollected(h, name) ==
    LET s == GetRound(h, "summary")
        Mine(b) == IF b.type = "collected" /\ b.player = name
                   THEN b.amount ELSE 0
    IN IF s = 0 THEN 0 ELSE SumSeq([k \in DOMAIN h.rounds[s].bets |-> Mine(h.rounds[s].bets[k])])

ComputeResult(h) ==
    [name \in PlayerNames(h) |->
        (0 - SumSeq([k \in DOMAIN PlayerBets(h, name) |-> TotalBetAdd(PlayerBets(h, name)[k])]))
        + SummaryCollected(h, name)]

\* reading the property Hand.result: [h |-> the hand afterwards,
\* raised |-> the read raised, val |-> the dict returned]
ReadResultOf(h) ==
    IF DOMAIN h.result # {}
    THEN [h |-> h, raised |-> FALSE, val |-> h.result]
    ELSE LET rf == Refresh(h)
         IN IF rf.raised THEN [h |-> rf.h, raised |-> TRUE, val |-> <<>>]
            ELSE LET res == ComputeResult(rf.h)
                 IN [h |-> [rf.h EXCEPT !.result = res], raised |-> FALSE,
                     val |-> res]

\* ----------------------------------------------------------------------
\* Specification SpecHand: one Hand, its rounds mutated through
\* Round.add_bet, refreshed and read
\* ----------------------------------------------------------------------
Alice == "Alice"
Bob == "Bob"
Names == {Alice, Bob}

TwoPlayers == <<Player(Alice, 5, 1, <<>>), Player(Bob, 5, 2, <<>>)>>

HandRoundNames == <<"hole cards", "flop", "summary">>

\* the actions a street of the hand can receive
HandBets(rname) ==
    IF rname = "hole cards"
    THEN {Bet(p, t, a) : p \in Names, t \in {"calls", "collected"}, a \in {1, 2}}
         \cup {Bet(p, "raises", 2) : p \in Names}
    ELSE IF rname = "flop" THEN {Bet(p, "calls", 1) : p \in Names}
    ELSE {Bet(p, "collected", a) : p \in Names, a \in {1, 2}}

NumBets(h) == SumSeq([i \in DOMAIN h.rounds |-> Len(h.rounds[i].bets)])

HistIdle ==
    /\ hist = [built |-> FALSE, hero |-> None, hands |-> <<>>,
               main_stats |-> NoFrame]
    /\ per_hand_rows = <<>>
    /\ memo = [k \in {} |-> <<>>]
    /\ out = [call |-> "none", force |-> FALSE, raised |-> FALSE, rows |-> <<>>]

\* no _parse_round call is under way
RoundIdle ==
    [phase |-> "idle", section |-> "", round |-> NewRound(""), players |-> <<>>,
     exc |-> "", row |-> [kind |-> "none"], n |-> 0]

\* no card function was applied, no History or Round object exists
LibIdle ==
    /\ cardIO = [op |-> "idle"]
    /\ heap = [op |-> "idle"]

ParseIdle ==
    /\ LibIdle
    /\ batch = <<>>
    /\ skipT = TRUE
    /\ idx = 1
    /\ results = <<>>
    /\ failed = 0
    /\ pc = "idle"
    /\ rnd = RoundIdle

InitHand ==
    /\ \E rake \in {0, 1} :
         hand = NewHand(1, TwoPlayers,
                        [i \in DOMAIN HandRoundNames |-> NewRound(HandRoundNames[i])],
                        Alice, 1, 4, rake).h
    /\ lastOp = "init"
    /\ HistIdle
    /\ ParseIdle

\* Round.add_bet on round i of the hand
AddBet(i, bet) ==
    /\ NumBets(hand) < MaxBets
    /\ hand' = [hand EXCEPT !.rounds[i] = RoundAddBet(@, bet)]
    /\ lastOp' = "add_bet"

HandAddBet ==
    /\ \E i \in DOMAIN hand.rounds :
         \E bet \in HandBets(hand.rounds[i].name) : AddBet(i, bet)
    /\ UNCHANGED <<histVars, parseVars>>

\* hand.refresh()
HandRefresh ==
    /\ hand' = Refresh(hand).h
    /\ lastOp' = "refresh"
    /\ UNCHANGED <<histVars, parseVars>>

\* hand.result
HandReadResult ==
    /\ hand' = ReadResultOf(hand).h
    /\ lastOp' = "result"
    /\ UNCHANGED <<histVars, parseVars>>

NextHand == HandAddBet \/ HandRefresh \/ HandReadResult

SpecHand == InitHand /\ [][NextHand]_vars

\* ----------------------------------------------------------------------
\* Properties of Hand.result (SpecHand)
\* ----------------------------------------------------------------------
\* the amounts of one kind of a player over all streets, street by street
StreetTotal(r, name, collected) ==
    LET Pick(b) == IF b.player = name /\ ((b.type = "collected") = collected)
                   THEN b.amount ELSE 0
    IN SumSeq([k \in DOMAIN r.bets |-> Pick(r.bets[k])])

AllStreetsTotal(h, name, collected) ==
    SumSeq([i \in DOMAIN h.rounds |-> StreetTotal(h.rounds[i], name, collected)])

\* what a player really committed in one street, by the amount semantics of
\* the log: a raise states the total committed in the street so far
RECURSIVE Committed(_, _, _)
Committed(bets, name, running) ==
    IF bets = <<>> THEN running
    ELSE LET b == Head(bets)
         IN Committed(Tail(bets), name,
                IF b.player # name \/ b.type = "collected" THEN running
                ELSE IF b.type = "raises" THEN Max(running, b.amount)
                ELSE running + b.amount)

\* the log of the hand is itself reconciled: what the players committed is
\* what was paid out plus the rake, and the payouts stand in the summary
LogReconciled(h) ==
    /\ SumSeq([i \in DOMAIN h.players |->
           SumSeq([j \in DOMAIN h.rounds |->
               Committed(h.rounds[j].bets, h.players[i].name, 0)])])
       = SumSeq([i \in DOMAIN h.players |->
             AllStreetsTotal(h, h.players[i].name, TRUE)]) + h.rake
    /\ \A j \in DOMAIN h.rounds :
         Lower(h.rounds[j].name) # "summary" =>
            \A k \in DOMAIN h.rounds[j].bets :
                h.rounds[j].bets[k].type # "collected"

\* the result just read was computed from the actions the hand has now
ResultFresh ==
    /\ lastOp = "result"
    /\ DOMAIN hand.result # {}
    /\ hand.result = ComputeResult(hand)

\* C1: the per-participant net results of a hand and its rake sum to zero
\* (stated for hands whose log is reconciled)
C1_ResultsPlusRakeZero ==
    (ResultFresh /\ LogReconciled(hand)) =>
        SumSeq([i \in DOMAIN hand.players |-> hand.result[hand.players[i].name]])
        + hand.rake = 0

\* C8: the result of a participant is minus its non-collected amounts plus
\* its collected amounts, both over all streets
C8_ResultOverAllStreets ==
    ResultFresh =>
        \A name \in PlayerNames(hand) :
            hand.result[name] = (0 - AllStreetsTotal(hand, name, FALSE))
                                + AllStreetsTotal(hand, name, TRUE)

\* C9: a read of result that follows a refresh returns the result of the
\* actions the hand has at that moment
C9_RefreshInvalidatesResult ==
    [][(lastOp = "refresh" /\ lastOp' = "result")
          => hand'.result = ComputeResult(hand')]_vars

\* ----------------------------------------------------------------------
\* poker.py: History
\* ----------------------------------------------------------------------
\* History.__init__: with a hero, the hands whose hero equals it and whose
\* game_type is "cash" are kept.  hands holds references to Hand objects:
\* i refers to pool[i].
NewHistory(pool, hs, hero) ==
    [built |-> TRUE, hero |-> hero,
     hands |-> IF hero # None
               THEN SelectSeq(hs, LAMBDA i : pool[i].hero = hero
                                             /\ pool[i].game_type = "cash")
               ELSE hs,
     main_stats |-> NoFrame]

AddTypes == {"small blind", "big blind", "bets", "calls"}

\* PerRound with a raise added to what was committed before it
RECURSIVE PerRoundRaiseAdds(_, _, _)
PerRoundRaiseAdds(bets, hero, per_round) ==
    IF bets = <<>> THEN per_round
    ELSE LET bet == Head(bets)
         IN PerRoundRaiseAdds(Tail(bets), hero,
                IF bet.player # hero THEN per_round
                ELSE IF bet.type \in AddTypes \cup {"raises", "uncalled"}
                     THEN per_round + bet.amount
                ELSE per_round)

\* get_money_history, the loop over rnd.bets: per_round after the bets
RECURSIVE PerRound(_, _, _)
PerRound(bets, hero, per_round) ==
    IF bets = <<>> THEN per_round
    ELSE LET bet == Head(bets)
         IN PerRound(Tail(bets), hero,
                IF bet.player # hero THEN per_round
                ELSE IF bet.type \in AddTypes THEN per_round + bet.amount
                ELSE IF bet.type = "raises" THEN Max(per_round, bet.amount)
                ELSE IF bet.type = "uncalled" THEN per_round + bet.amount
                ELSE per_round)

\* get_money_history: total_bet of one hand
TotalBet(h, hero) ==
    SumSeq([i \in DOMAIN h.rounds |-> PerRound(h.rounds[i].bets, hero, 0)])

\* get_money_history: won of one hand; the pots and rakes of the model keep
\* the division of the fallback exact
Won(h, hero) ==
    LET Mine(b) == IF b.player = hero /\ b.type = "collected"
                   THEN b.amount ELSE 0
        won == SumSeq([i \in DOMAIN h.rounds |-> SumSeq([k \in DOMAIN h.rounds[i].bets |-> Mine(h.rounds[i].bets[k])])])
    IN IF won = 0 /\ h.winner # <<>> /\ hero \in Range(h.winner)
       THEN (h.pot - h.rake) \div Max(Len(h.winner), 1)
       ELSE won

MoneyRow(h, hero) ==
    [date |-> h.date, total_bet |-> TotalBet(h, hero), won |-> Won(h, hero),
     net |-> Won(h, hero) - TotalBet(h, hero), pot |-> h.pot, rake |-> h.rake]

\* df.sort("date"): insertion sort on the date
RECURSIVE InsertByDate(_, _)
InsertByDate(sorted, row) ==
    IF sorted = <<>> THEN <<row>>
    ELSE IF Head(sorted).date <= row.date
         THEN <<Head(sorted)>> \o InsertByDate(Tail(sorted), row)
         ELSE <<row>> \o sorted

RECURSIVE SortByDate(_)
SortByDate(rows) ==
    IF rows = <<>> THEN <<>>
    ELSE InsertByDate(SortByDate(SubSeq(rows, 1, Len(rows) - 1)), rows[Len(rows)])

\* the cum_sum columns
WithCumulative(rows) ==
    [i \in DOMAIN rows |->
        [date |-> rows[i].date, total_bet |-> rows[i].total_bet,
         won |-> rows[i].won, net |-> rows[i].net, pot |-> rows[i].pot,
         rake |-> rows[i].rake,
         cumulative_net |-> SumSeq([j \in 1..i |-> rows[j].net]),
         cumulative_total_bet |-> SumSeq([j \in 1..i |-> rows[j].total_bet]),
         cumulative_won |-> SumSeq([j \in 1..i |-> rows[j].won]),
         cumulative_pot |-> SumSeq([j \in 1..i |-> rows[j].pot]),
         cumulative_rake |-> SumSeq([j \in 1..i |-> rows[j].rake])]]

\* History.get_money_history of a History with a hero over the hands hs
MoneyHistory(hs, hero) ==
    WithCumulative(SortByDate([i \in DOMAIN hs |-> MoneyRow(hs[i], hero)]))

\* build_player_bets_map(hand)[name]: (round name, bet) pairs in order
BetsMap(h, name) ==
    LET all == Concat([i \in DOMAIN h.rounds |->
                   [k \in DOMAIN h.rounds[i].bets |->
                       [rnd |-> Lower(h.rounds[i].name),
                        bet |-> h.rounds[i].bets[k]]]])
    IN SelectSeq(all, LAMBDA e : e.bet.player = name)

\* get_main_stats, the 3-bet detection: the loop stops (break) at the first
\* raise of the player and looks at the raises before it
ThreeBet(h, name) ==
    LET hr == GetRound(h, "hole cards")
        all_preflop == IF hr = 0 THEN <<>> ELSE h.rounds[hr].bets
        mine == {i \in DOMAIN all_preflop :
                    all_preflop[i].player = name /\ all_preflop[i].type = "raises"}
    IN /\ mine # {}
       /\ LET first == CHOOSE i \in mine : \A j \in mine : i <= j
          IN \E i \in 1..(first - 1) :
                 all_preflop[i].type = "raises" /\ all_preflop[i].player # name

\* get_main_stats: the row appended to per_hand_rows for one player of one
\* hand (the columns player, hand_id, date, vpip, pfr, 3bet, invested,
\* collected and winner)
StatsRow(h, name) ==
    LET bm == BetsMap(h, name)
        player_bets == SelectSeq(bm, LAMBDA e : e.rnd = "hole cards")
        Inv(e) == IF e.bet.type # "collected" THEN e.bet.amount ELSE 0
        Col(e) == IF e.bet.type = "collected" THEN e.bet.amount ELSE 0
    IN [player |-> name, hand_id |-> h.id, date |-> h.date,
        vpip |-> \E i \in DOMAIN player_bets :
                     player_bets[i].bet.type \in {"calls", "bets", "raises"},
        pfr |-> \E i \in DOMAIN player_bets : player_bets[i].bet.type = "raises",
        threebet |-> ThreeBet(h, name),
        invested |-> SumSeq([i \in DOMAIN bm |-> Inv(bm[i])]),
        collected |-> SumSeq([i \in DOMAIN bm |-> Col(bm[i])]),
        winner |-> name \in Range(h.winner)]

StatsRows(h) == [i \in DOMAIN h.players |-> StatsRow(h, h.players[i].name)]

\* ----------------------------------------------------------------------
\* Specification SpecHistory: the hand is filled, a History is built over
\* it, and get_money_history / get_main_stats are called
\* ----------------------------------------------------------------------
HistBets(rname) ==
    IF rname = "hole cards"
    THEN {Bet(Alice, t, 2) : t \in {"calls", "bets", "big blind", "raises"}}
         \cup {Bet(Alice, "raises", 6), Bet(Alice, "uncalled", 0 - 2),
               Bet(Alice, "collected", 6), Bet(Alice, "folds", 0),
               Bet(Bob, "calls", 2), Bet(Bob, "raises", 6)}
    ELSE IF rname = "flop" THEN {Bet(Alice, "calls", 2), Bet(Alice, "raises", 6)}
    ELSE {}

InitHistory ==
    /\ hand = NewHand(1, TwoPlayers,
                      [i \in DOMAIN HandRoundNames |-> NewRound(HandRoundNames[i])],
                      Alice, 1, 4, 0).h
    /\ lastOp = "init"
    /\ HistIdle
    /\ ParseIdle

HistAddBet ==
    /\ ~hist.built
    /\ \E i \in DOMAIN hand.rounds :
         \E bet \in HistBets(hand.rounds[i].name) : AddBet(i, bet)
    /\ UNCHANGED <<histVars, parseVars>>

\* History(hands=[hand], hero=hero)
HistNew ==
    /\ ~hist.built
    /\ \E hero \in {None, Alice} : hist' = NewHistory(<<hand>>, <<1>>, hero)
    /\ UNCHANGED <<hand, lastOp, per_hand_rows, memo, out, parseVars>>

HistHands == [i \in DOMAIN hist.hands |-> hand]

\* history.get_money_history(): ValueError without a hero
HistGetMoneyHistory ==
    /\ hist.built
    /\ hist.hands # <<>>
    /\ out' = IF hist.hero = None THEN [call |-> "money", force |-> FALSE, raised |-> TRUE, rows |-> <<>>]
              ELSE [call |-> "money", force |-> FALSE, raised |-> FALSE,
                    rows |-> MoneyHistory(HistHands, hist.hero)]
    /\ UNCHANGED <<hand, lastOp, hist, per_hand_rows, memo, parseVars>>

\* history.get_main_stats(hero=history.hero, force=force).  functools.cache
\* answers a repeated (self, hero, force) from memo without running the body.
HistGetMainStats ==
    /\ hist.built
    /\ \E force \in BOOLEAN :
        LET key == <<hist.hero, force>>
            hs == IF hist.hero = None THEN hist.hands
                  ELSE SelectSeq(hist.hands, LAMBDA i : hand.hero = hist.hero)
            rf == Refresh(hand)
            rows == IF hs = <<>> \/ rf.raised THEN per_hand_rows
                    ELSE per_hand_rows \o StatsRows(rf.h)
        IN IF key \in DOMAIN memo
           THEN /\ out' = [call |-> "stats", force |-> force, raised |-> FALSE, rows |-> memo[key]]
                /\ UNCHANGED <<hand, lastOp, hist, per_hand_rows, memo>>
           ELSE IF ~hist.main_stats.none /\ ~force
           THEN /\ out' = [call |-> "stats", force |-> force, raised |-> FALSE,
                           rows |-> hist.main_stats.rows]
                /\ memo' = [k \in DOMAIN memo \cup {key} |->
                               IF k = key THEN hist.main_stats.rows ELSE memo[k]]
                /\ UNCHANGED <<hand, lastOp, hist, per_hand_rows>>
           ELSE /\ hand' = IF hs = <<>> THEN hand ELSE rf.h
                /\ lastOp' = IF hs = <<>> THEN lastOp ELSE "refresh"
                /\ per_hand_rows' = rows
                /\ hist' = IF hs = <<>> \/ rf.raised THEN hist
                           ELSE [hist EXCEPT !.main_stats = Frame(rows)]
                /\ out' = [call |-> "stats", force |-> force, raised |-> hs # <<>> /\ rf.raised,
                           rows |-> IF hs # <<>> /\ rf.raised THEN <<>> ELSE rows]
                /\ memo' = IF hs # <<>> /\ rf.raised THEN memo
                           ELSE [k \in DOMAIN memo \cup {key} |->
                                    IF k = key THEN rows ELSE memo[k]]
    /\ UNCHANGED parseVars

NextHistory == HistAddBet \/ HistNew \/ HistGetMoneyHistory \/ HistGetMainStats

SpecHistory == InitHistory /\ [][NextHistory]_vars

\* ----------------------------------------------------------------------
\* Properties of History (SpecHistory)
\* ----------------------------------------------------------------------
Front(s) == SubSeq(s, 1, Len(s) - 1)

\* the running total of a street after the hero's actions acts, defined on
\* the last action and the total before it
RECURSIVE RunningTotal(_)
RunningTotal(acts) ==
    IF acts = <<>> THEN 0
    ELSE LET before == RunningTotal(Front(acts))
             a == acts[Len(acts)]
         IN CASE a.type \in {"small blind", "big blind", "bets", "calls"}
                    -> before + a.amount
              [] a.type = "raises" -> Max(before, a.amount)
              [] a.type = "uncalled" -> before + a.amount
              [] OTHER -> before

HeroActions(r, hero) == SelectSeq(r.bets, LAMBDA b : b.player = hero)

MoneyReturned == out.call = "money" /\ ~out.raised

\* C2: the invested amount of the hero is the sum over the streets of the
\* running total of the hero's actions of the street (blind, bet, call and
\* uncalled add their amount, a raise replaces the total by the maximum of
\* the total and its amount); a call of 2 and then a raise to 6 on one
\* street give 6
C2_InvestedRunningTotal ==
    MoneyReturned =>
        /\ out.rows[1].total_bet =
              SumSeq([i \in DOMAIN hand.rounds |->
                         RunningTotal(HeroActions(hand.rounds[i], hist.hero))])
        /\ (/\ HeroActions(hand.rounds[1], hist.hero)
                  = <<Bet(hist.hero, "calls", 2), Bet(hist.hero, "raises", 6)>>
            /\ \A i \in 2..Len(hand.rounds) :
                  HeroActions(hand.rounds[i], hist.hero) = <<>>)
           => out.rows[1].total_bet = 6

C2_Witness ==
    /\ MoneyReturned
    /\ hand.rounds[1].bets = <<Bet(Alice, "calls", 2), Bet(Alice, "raises", 6)>>
    /\ NumBets(hand) = 2
    /\ out.rows[1].total_bet = 6

\* C27: for every hand of a History with a hero, the net that
\* get_money_history reports is the hero's entry of Hand.result of the
\* hand, also when the hero called and then raised on one street
C27_LedgerNetIsHandResult ==
    MoneyReturned =>
        \A k \in DOMAIN out.rows :
            out.rows[k].net = ReadResultOf(hand).val[hist.hero]

StatsReturned == out.call = "stats" /\ ~out.raised /\ out.rows # <<>>

\* C3: a row is flagged as a 3-bet exactly when its participant made a
\* raise in the hole-cards street that has an earlier raise of another
\* participant before it
C3_ThreeBetIffEarlierRaise ==
    StatsReturned =>
        \A k \in DOMAIN out.rows :
            LET name == out.rows[k].player
                pre == hand.rounds[GetRound(hand, "hole cards")].bets
            IN out.rows[k].threebet <=>
                 \E i \in DOMAIN pre :
                    /\ pre[i].type = "raises" /\ pre[i].player = name
                    /\ \E j \in 1..(i - 1) :
                          pre[j].type = "raises" /\ pre[j].player # name

\* the rows a computation over the hands the History has now gives
StatsOfCurrentHands ==
    IF HistHands = <<>> THEN <<>> ELSE StatsRows(hand)

\* C12: the table get_main_stats returns holds one row for each
\* (participant, hand) pair of the hands it covers and no pair twice
C12_OneRowPerPair ==
    StatsReturned =>
        /\ Len(out.rows) = Len(hand.players)
        /\ \A name \in PlayerNames(hand) :
              Cardinality({k \in DOMAIN out.rows :
                              out.rows[k].player = name
                              /\ out.rows[k].hand_id = hand.id}) = 1

\* C13: the first call of get_main_stats computes the table, a later call
\* without force returns the cached table, and every call with force
\* returns the table recomputed from the hands the History has now
C13_CachedUnlessForced ==
    [][(hist.built /\ out'.call = "stats" /\ ~out'.raised /\ out' # out)
          => /\ out'.force => out'.rows = StatsOfCurrentHands'
             /\ (~out'.force /\ ~hist.main_stats.none)
                   => out'.rows = hist.main_stats.rows
             /\ (hist.main_stats.none /\ DOMAIN memo = {})
                   => out'.rows = StatsOfCurrentHands']_vars

\* ----------------------------------------------------------------------
\* cards.py: Card.  A string is the sequence of its characters; exc is ""
\* when nothing is raised.  A suit symbol is a string of two code points,
\* the symbol and the variation selector U+FE0F.
\* ----------------------------------------------------------------------
SPADES == <<"U+2660", "U+FE0F">>
CLUBS == <<"U+2663", "U+FE0F">>
HEARTS == <<"U+2665", "U+FE0F">>
DIAMONDS == <<"U+2666", "U+FE0F">>

\* the dict SUITS: the suit letter of a token to the symbol a Card holds
SUITS ==
    [k \in {"s", "c", "h", "d"} |->
        CASE k = "s" -> SPADES
          [] k = "c" -> CLUBS
          [] k = "h" -> HEARTS
          [] k = "d" -> DIAMONDS]

REVERSE_SUITS(suit) == CHOOSE k \in DOMAIN SUITS : SUITS[k] = suit

\* Card._parse_number; 0 stands for the ValueError it raises
ParseNumber(ch) ==
    CASE ch = "A" -> 1
      [] ch = "T" -> 10
      [] ch = "J" -> 11
      [] ch = "Q" -> 12
      [] ch = "K" -> 13
      [] ch = "2" -> 2
      [] ch = "3" -> 3
      [] ch = "4" -> 4
      [] ch = "5" -> 5
      [] ch = "6" -> 6
      [] ch = "7" -> 7
      [] ch = "8" -> 8
      [] ch = "9" -> 9
      [] OTHER -> 0

NoCard == [number |-> 0, suit |-> <<>>]

\* str.strip() of the blanks at both ends
RECURSIVE Strip(_)
Strip(string) ==
    IF string = <<>> THEN <<>>
    ELSE IF Head(string) = " " THEN Strip(Tail(string))
    ELSE IF string[Len(string)] = " " THEN Strip(SubSeq(string, 1, Len(string) - 1))
    ELSE string

\* .replace("[", "").replace("]", "")
RemoveBrackets(string) ==
    LET Kept(ch) == ch \notin {"[", "]"} IN SelectSeq(string, Kept)

\* Card.from_string once the string is stripped and freed of brackets: the
\* length is checked first, then _parse_number runs (an argument of the
\* call Card(...)), then Card.__init__ checks the suit
CardOfClean(string) ==
    IF Len(string) # 2 THEN [exc |-> "ValueError", card |-> NoCard]
    ELSE IF ParseNumber(string[1]) = 0
    THEN [exc |-> "ValueError", card |-> NoCard]
    ELSE IF string[2] \notin DOMAIN SUITS
    THEN [exc |-> "TypeError", card |-> NoCard]
    ELSE [exc |-> "", card |-> [number |-> ParseNumber(string[1]),
                                suit |-> SUITS[string[2]]]]

CardFromString(tok) == CardOfClean(RemoveBrackets(Strip(tok)))

\* the rank character of Card.stringify and Card.standard_string
RankChar(number) ==
    CASE number = 1 -> "A"
      [] number = 10 -> "T"
      [] number = 11 -> "J"
      [] number = 12 -> "Q"
      [] number = 13 -> "K"
      [] number = 2 -> "2"
      [] number = 3 -> "3"
      [] number = 4 -> "4"
      [] number = 5 -> "5"
      [] number = 6 -> "6"
      [] number = 7 -> "7"
      [] number = 8 -> "8"
      [] number = 9 -> "9"

\* Card.stringify (also __str__ and __repr__): the rank and the suit symbol
Stringify(card) == <<RankChar(card.number)>> \o card.suit

\* Card.standard_string: the rank and the suit letter
StandardString(card) == <<RankChar(card.number), REVERSE_SUITS(card.suit)>>

\* Pair.__init__, the attribute hand: the cards are sorted by number, the
\* lower first (the Ace has number 1); the value assigned for a pocket pair
\* is replaced by the if/else on suited that follows it
PairHand(c1, c2) ==
    LET card1 == IF c1.number <= c2.number THEN c1 ELSE c2
        card2 == IF c1.number <= c2.number THEN c2 ELSE c1
    IN IF card1.suit = card2.suit
       THEN <<Stringify(card1)[1], Stringify(card2)[1], "s">>
       ELSE <<Stringify(card1)[1], Stringify(card2)[1], "o">>

\* poker.py: rank_str, RANK_MAP.get(n, str(n))
rank_str(n) == RankChar(n)

\* poker.py: pair_notation on two cards: the card of the larger number first
pair_notation(c1, c2) ==
    LET a == IF c1.number >= c2.number THEN c1 ELSE c2
        b == IF c1.number >= c2.number THEN c2 ELSE c1
    IN IF a.number = b.number THEN <<rank_str(a.number), rank_str(b.number)>>
       ELSE <<rank_str(a.number), rank_str(b.number),
              IF a.suit = b.suit THEN "s" ELSE "o">>

\* [Card.from_string(c) for c in tokens]: the first token that raises decides
RECURSIVE ParseCards(_)
ParseCards(toks) ==
    IF toks = <<>> THEN [exc |-> "", cards |-> <<>>]
    ELSE LET c == CardFromString(Head(toks))
         IN IF c.exc # "" THEN [exc |-> c.exc, cards |-> <<>>]
            ELSE LET rest == ParseCards(Tail(toks))
                 IN [exc |-> rest.exc,
                     cards |-> IF rest.exc # "" THEN <<>>
                               ELSE <<c.card>> \o rest.cards]

\* Round.update_board: a card is appended unless an equal one is there
RECURSIVE UpdateBoard(_, _)
UpdateBoard(board, cards) ==
    IF cards = <<>> THEN board
    ELSE UpdateBoard(IF Head(cards) \in Range(board) THEN board
                     ELSE Append(board, Head(cards)), Tail(cards))

\* ----------------------------------------------------------------------
\* pokerstars.py: the rows of a section.  A row is given by the branch of
\* _parse_round whose pattern it matches first (kind) and by the groups the
\* pattern extracts:
\*   dealt     "Dealt to NAME [cards]"
\*   board     "[cards] [card]"
\*   action    "NAME: bets|calls|raises|folds|checks ..."; amt is the figure
\*             after "to" (to = TRUE) or else the currency-prefixed figure
\*             (cur = TRUE), or a figure with no currency sign (cur = FALSE)
\*   blind     "NAME: posts small|big blind AMOUNT"
\*   uncalled  "Uncalled bet (AMOUNT) returned to NAME"
\*   collected "NAME collected (AMOUNT)"; cur: the row holds a currency sign
\*   showed    "NAME showed [..] and won (AMOUNT)"; cur as above
\*   other     a row no pattern matches
\* ----------------------------------------------------------------------
Row(kind, name, act, amt, cur, to, cards) ==
    [kind |-> kind, name |-> name, act |-> act, amt |-> amt, cur |-> cur,
     to |-> to, cards |-> cards]

\* the amount of an action row: for "raises" the figure after "to", else the
\* last currency-prefixed figure; for the other kinds the first
\* currency-prefixed figure; 0.0 when there is none
ActionAmount(row) ==
    IF row.act = "raises"
    THEN (IF row.to \/ row.cur THEN row.amt ELSE 0)
    ELSE (IF row.cur THEN row.amt ELSE 0)

\* `for player in players: if player.name == name:` runs its body once for
\* every seat of that name
Matches(players, name) ==
    Cardinality({i \in DOMAIN players : players[i].name = name})

RECURSIVE AddBetTimes(_, _, _)
AddBetTimes(r, bet, n) ==
    IF n = 0 THEN r ELSE AddBetTimes(RoundAddBet(r, bet), bet, n - 1)

\* the body of the payout branches: round.pot = amount, set_winner, add_bet
RECURSIVE CollectTimes(_, _, _, _)
CollectTimes(r, name, amount, n) ==
    IF n = 0 THEN r
    ELSE CollectTimes(
            RoundAddBet(RoundSetWinner([r EXCEPT !.pot = amount], name),
                        Bet(name, "collected", amount)),
            name, amount, n - 1)

GameTypeOf(row) == IF row.cur THEN "cash" ELSE "tournament"

\* one row of _parse_round; st = [round, players, exc]
ParseRow(st, row) ==
    LET n == Matches(st.players, row.name)
    IN CASE row.kind = "dealt" ->
              LET pc0 == ParseCards(row.cards)
              IN IF pc0.exc # "" THEN [st EXCEPT !.exc = pc0.exc]
                 ELSE [st EXCEPT !.players =
                          [i \in DOMAIN st.players |->
                              IF st.players[i].name = row.name
                              THEN [st.players[i] EXCEPT !.cards = pc0.cards]
                              ELSE st.players[i]]]
         [] row.kind = "board" ->
              LET pc0 == ParseCards(row.cards)
              IN IF pc0.exc # "" THEN [st EXCEPT !.exc = pc0.exc]
                 ELSE [st EXCEPT !.round.board = UpdateBoard(@, pc0.cards)]
         [] row.kind = "action" ->
              [st EXCEPT !.round =
                  AddBetTimes(@, Bet(row.name, row.act, ActionAmount(row)), n)]
         [] row.kind = "blind" ->
              [st EXCEPT !.round =
                  RoundAddBet(@, BetOfNewPlayer(row.name, row.act, row.amt))]
         [] row.kind = "uncalled" ->
              [st EXCEPT !.round =
                  AddBetTimes(@, Bet(row.name, "uncalled", 0 - row.amt), n)]
         [] row.kind = "collected" ->
              [st EXCEPT !.round =
                  [CollectTimes(@, row.name, row.amt, n)
                      EXCEPT !.game_type = GameTypeOf(row)]]
         [] row.kind = "showed" ->
              [st EXCEPT !.round =
                  CollectTimes([@ EXCEPT !.game_type = GameTypeOf(row)],
                               row.name, row.amt, n)]
         [] OTHER -> st

RECURSIVE ParseRows(_, _)
ParseRows(st, rows) ==
    IF rows = <<>> \/ st.exc # "" THEN st
    ELSE ParseRows(ParseRow(st, Head(rows)), Tail(rows))

\* PokerStarsParser._parse_round: none = TRUE when Round(name=section)
\* raises ValueError and None is returned
ParseRound(rows, section, players) ==
    IF ~RoundNameOk(section)
    THEN [none |-> TRUE, round |-> NewRound(section), players |-> players,
          exc |-> ""]
    ELSE LET st == ParseRows([round |-> NewRound(section), players |-> players,
                              exc |-> ""], rows)
         IN [none |-> FALSE, round |-> st.round, players |-> st.players,
             exc |-> st.exc]

\* SPANISH_MAP.get(name.upper(), name.lower()) on the marker names of the model
SectionName(marker) ==
    CASE marker = "HOLE CARDS" -> "hole cards"
      [] marker = "CARTAS DE MANO" -> "hole cards"
      [] marker = "FLOP" -> "flop"
      [] marker = "TURN" -> "turn"
      [] marker = "RIVER" -> "river"
      [] marker = "SHOW DOWN" -> "show down"
      [] marker = "SUMMARY" -> "summary"
      [] marker = "RESUMEN" -> "summary"
      [] marker = "BONUS" -> "bonus"

\* the section entries of the dict _parse_hand returns: a name that comes
\* again keeps its first place and takes the later text
RECURSIVE SectionsDict(_, _)
SectionsDict(acc, secs) ==
    IF secs = <<>> THEN acc
    ELSE LET name == SectionName(Head(secs).name)
             hit == {i \in DOMAIN acc : acc[i].name = name}
         IN SectionsDict(
                IF hit = {} THEN Append(acc, [name |-> name, rows |-> Head(secs).rows])
                ELSE [i \in DOMAIN acc |->
                         IF i \in hit THEN [name |-> name, rows |-> Head(secs).rows]
                         ELSE acc[i]],
                Tail(secs))

\* PokerStarsParser._parse_hand on a block.  A block is
\*   [hasId, tournament, date ("none": no timestamp, "bad": a timestamp
\*    strptime rejects, "ok"), seats, pot, rake, sections]
\* empty = TRUE stands for the {} returned without a timestamp.
ParseHandText(b) ==
    IF b.date = "none" THEN [empty |-> TRUE, exc |-> "", sections |-> <<>>]
    ELSE IF b.date = "bad" THEN [empty |-> FALSE, exc |-> "ValueError", sections |-> <<>>]
    ELSE IF b.sections = <<>>
         THEN [empty |-> FALSE, exc |-> "IndexError", sections |-> <<>>]
    ELSE [empty |-> FALSE, exc |-> "", sections |-> SectionsDict(<<>>, b.sections)]

\* the list comprehension over sections.items() in parse: every section is
\* parsed with the same players list; the None results are filtered out
RECURSIVE ParseRounds(_, _, _)
ParseRounds(secs, players, acc) ==
    IF secs = <<>> THEN [rounds |-> acc, players |-> players, exc |-> ""]
    ELSE LET r == ParseRound(Head(secs).rows, Head(secs).name, players)
         IN IF r.exc # "" THEN [rounds |-> acc, players |-> r.players, exc |-> r.exc]
            ELSE ParseRounds(Tail(secs), r.players,
                             IF r.none THEN acc ELSE Append(acc, r.round))

\* the hand-level inference of parse after Hand(...) was built
InferGameType(h, rounds) ==
    IF \E i \in DOMAIN rounds : rounds[i].game_type = "cash"
    THEN [h EXCEPT !.game_type = "cash"]
    ELSE IF \E i \in DOMAIN rounds : rounds[i].game_type = "tournament"
    THEN [h EXCEPT !.game_type = "tournament"]
    ELSE h

\* Caught with only ValueError caught at the block boundary
CaughtValueErrorOnly(exc) == exc = "ValueError"

\* `except Exception` around the body of the loop catches every exception
Caught(exc) == TRUE

\* CountFailure with a skipped block counted as a failure too
CountFailureAlsoSkipped(n, kind) ==
    IF kind \in {"failed", "skipped"} THEN n + 1 ELSE n

\* self.failed += 1 on the failure paths of the loop
CountFailure(n, kind) == IF kind = "failed" THEN n + 1 ELSE n

ParseHero == Alice
ParseDate == 1

Outcome(kind, exc, h, brk) == [kind |-> kind, exc |-> exc, hand |-> h, brk |-> brk]
NoHand == [id |-> 0]

\* results.append(hand_obj); brk: the hand has no winner
AppendHand(h) == Outcome("hand", "", h, h.winner = <<>>)

\* an exception raised inside the try of the loop body
Fail(exc) ==
    IF Caught(exc) THEN Outcome("failed", exc, NoHand, FALSE)
    ELSE Outcome("raise", exc, NoHand, FALSE)

\* the loop body once Hand(...) was built: game-type inference,
\* hand_obj.refresh(), results.append(hand_obj), and the break when the
\* hand has no winner
AfterHand(nh, rounds) ==
    IF nh.raised THEN Fail("TypeError")
    ELSE AppendHand(Refresh(InferGameType(nh.h, rounds)).h)

\* the loop body once the rounds were parsed: Hand(...) is built
AfterRounds(b, i, pr) ==
    IF pr.exc # "" THEN Fail(pr.exc)
    ELSE AfterHand(NewHand(i, pr.players, pr.rounds, ParseHero, ParseDate,
                           b.pot, b.rake),
                   pr.rounds)

\* the loop body once _parse_hand returned ph
AfterParseHand(b, i, ph) ==
    IF ph.exc # "" THEN Fail(ph.exc)
    ELSE IF ph.empty THEN Outcome("skipped", "", NoHand, FALSE)
    ELSE AfterRounds(b, i, ParseRounds(ph.sections, b.seats, <<>>))

\* one iteration of the loop of PokerStarsParser.parse on block b, the i-th
\* of the input (its hand id is i): kind is "failed" (self.failed += 1;
\* continue), "skipped" (continue), "hand" (results.append) or "raise" (an
\* exception leaves parse); brk is the break after a hand without winner
ProcessBlock(b, i, skip_tournaments) ==
    IF ~b.hasId THEN Outcome("failed", "", NoHand, FALSE)
    ELSE IF skip_tournaments /\ b.tournament
         THEN Outcome("skipped", "", NoHand, FALSE)
    ELSE AfterParseHand(b, i, ParseHandText(b))

\* ----------------------------------------------------------------------
\* Specification SpecParse: PokerStarsParser.parse over a batch of blocks
\* ----------------------------------------------------------------------
ActionRow(name, act, amt, cur, to) == Row("action", name, act, amt, cur, to, <<>>)
CollectedRow(name, amt, cur) == Row("collected", name, "", amt, cur, FALSE, <<>>)
DealtRow(name, cards) == Row("dealt", name, "", 0, FALSE, FALSE, cards)
BoardRow(cards) == Row("board", "", "", 0, FALSE, FALSE, cards)
OtherRow == Row("other", "", "", 0, FALSE, FALSE, <<>>)
BlindRow(name, blind, amt) == Row("blind", name, blind, amt, TRUE, FALSE, <<>>)
UncalledRow(name, amt) == Row("uncalled", name, "", amt, TRUE, FALSE, <<>>)
ShowedRow(name, amt, cur) == Row("showed", name, "", amt, cur, FALSE, <<>>)

Section(name, rows) == [name |-> name, rows |-> rows]

Preflop == <<ActionRow(Alice, "raises", 2, TRUE, TRUE),
             ActionRow(Bob, "calls", 2, TRUE, FALSE)>>

\* the sections of the blocks of the model
BodyCash ==
    <<Section("HOLE CARDS", Preflop),
      Section("SUMMARY", <<OtherRow, CollectedRow(Alice, 4, TRUE)>>)>>
BodyNoWinner ==
    <<Section("HOLE CARDS", <<ActionRow(Alice, "raises", 2, TRUE, TRUE),
                              ActionRow(Bob, "folds", 0, FALSE, FALSE)>>),
      Section("SUMMARY", <<OtherRow>>)>>
BodyMixed ==
    <<Section("HOLE CARDS", Preflop),
      Section("SUMMARY", <<CollectedRow(Alice, 4, FALSE)>>)>>
BodyTournament ==
    <<Section("SUMMARY", <<CollectedRow(Bob, 4, FALSE)>>)>>
BodyBoard ==
    <<Section("HOLE CARDS", Preflop),
      Section("TURN", <<BoardRow(<<<<"2", "h">>, <<"3", "d">>, <<"4", "s">>,
                                  <<"5", "c">>>>)>>),
      Section("SUMMARY", <<CollectedRow(Alice, 4, TRUE)>>)>>
BodyBadCard ==
    <<Section("HOLE CARDS", <<DealtRow(Alice, <<<<"A", "h">>, <<"1", "h">>>>)>>
                            \o Preflop),
      Section("SUMMARY", <<CollectedRow(Alice, 4, TRUE)>>)>>
BodyBonus ==
    <<Section("BONUS", Preflop),
      Section("RESUMEN", <<CollectedRow(Bob, 4, TRUE)>>)>>

BodyBlind ==
    <<Section("HOLE CARDS",
              <<DealtRow(Alice, <<<<"A", "h">>, <<"K", "h">>>>),
                BlindRow(Alice, "small blind", 1)>> \o Preflop),
      Section("SUMMARY", <<CollectedRow(Alice, 4, TRUE)>>)>>
BodyTwoWinners ==
    <<Section("SUMMARY", <<CollectedRow(Alice, 2, TRUE),
                           CollectedRow(Bob, 2, TRUE)>>),
      Section("SHOW DOWN", <<ShowedRow(Bob, 2, TRUE)>>)>>

\* the hand text of the end-to-end example: no currency sign on any row
BodyPlain ==
    <<Section("HOLE CARDS", <<ActionRow(Alice, "raises", 2, FALSE, TRUE),
                              ActionRow(Bob, "calls", 2, FALSE, FALSE)>>),
      Section("SUMMARY", <<CollectedRow(Alice, 4, FALSE)>>)>>

\* pot is the figure of the "Total pot" line of the block, 0 without one
Block(hasId, tournament, date, sections) ==
    [hasId |-> hasId, tournament |-> tournament, date |-> date,
     seats |-> TwoPlayers, pot |-> 4, rake |-> 0, sections |-> sections]

\* the blocks a batch is made of: every outcome of the pre-filter on a
\* well-formed cash hand, and the other bodies behind a passing pre-filter
Blocks ==
    {Block(i, t, d, BodyCash) : i \in BOOLEAN, t \in BOOLEAN,
                                d \in {"none", "bad", "ok"}}
    \cup {Block(TRUE, t, "ok", b) : t \in BOOLEAN, b \in {BodyMixed, BodyTournament}}
    \cup {Block(TRUE, FALSE, "ok", b) :
              b \in {<<>>, BodyNoWinner, BodyBoard, BodyBadCard, BodyBonus,
                     BodyBlind, BodyTwoWinners}}
    \cup {[Block(TRUE, FALSE, "ok", BodyPlain) EXCEPT !.pot = p] : p \in {0, 4}}

Batches == UNION {[1..n -> Blocks] : n \in 0..MaxBlocks}

HandIdle ==
    /\ hand = NewHand(1, TwoPlayers,
                      [i \in DOMAIN HandRoundNames |-> NewRound(HandRoundNames[i])],
                      Alice, 1, 4, 0).h
    /\ lastOp = "init"

InitParse ==
    /\ batch \in Batches
    /\ skipT \in BOOLEAN
    /\ idx = 1
    /\ results = <<>>
    /\ failed = 0
    /\ pc = IF batch = <<>> THEN "done" ELSE "loop"
    /\ rnd = RoundIdle
    /\ LibIdle
    /\ HandIdle
    /\ HistIdle

\* one iteration of `for hand in hands:`; after the last block, or after the
\* break, parse returns results
ParseBlock ==
    /\ pc = "loop"
    /\ idx <= Len(batch)
    /\ \E o \in {ProcessBlock(batch[idx], idx, skipT)} :
          IF o.kind = "raise"
          THEN /\ pc' = "raised"
               /\ UNCHANGED <<idx, results, failed>>
          ELSE /\ results' = IF o.kind = "hand" THEN Append(results, o.hand)
                             ELSE results
               /\ failed' = CountFailure(failed, o.kind)
               /\ idx' = idx + 1
               /\ pc' = IF o.brk \/ idx + 1 > Len(batch) THEN "done" ELSE "loop"
    /\ UNCHANGED <<batch, skipT, rnd, libVars, handVars, histVars>>

\* refresh() on a Hand that parse returned
ParseRefreshReturned ==
    /\ pc = "done"
    /\ \E i \in DOMAIN results :
          results' = [results EXCEPT ![i] = Refresh(@).h]
    /\ lastOp' = "refresh"
    /\ UNCHANGED <<hand, batch, skipT, idx, failed, pc, rnd, libVars, histVars>>

NextParse == ParseBlock \/ ParseRefreshReturned

SpecParse == InitParse /\ [][NextParse]_vars

\* ----------------------------------------------------------------------
\* Properties of parse (SpecParse), stated on the text of the blocks
\* ----------------------------------------------------------------------
\* the block holds a hand id and a timestamp
Precondition(b) == b.hasId /\ b.date # "none"

\* the block gets past the pre-filter of the loop
Reached(b) == Precondition(b) /\ ~(skipT /\ b.tournament)

ValidSections(b) ==
    {i \in DOMAIN b.sections : SectionName(b.sections[i].name) \in ValidRoundNames}

RowsOfKind(b, kinds) ==
    {r \in UNION {Range(b.sections[i].rows) : i \in ValidSections(b)} :
        r.kind \in kinds}

ValidToken(tok) ==
    /\ Len(tok) = 2
    /\ tok[1] \in {"A", "2", "3", "4", "5", "6", "7", "8", "9", "T", "J", "Q", "K"}
    /\ tok[2] \in {"s", "c", "h", "d"}

\* processing the block raises: a timestamp that is no date, no section
\* marker, a card token that is no card, or community cards (a Card cannot
\* be put into the set of the Hand)
RaisesInside(b) ==
    \/ b.date = "bad"
    \/ b.sections = <<>>
    \/ \E r \in RowsOfKind(b, {"dealt", "board"}) :
          \E k \in DOMAIN r.cards : ~ValidToken(r.cards[k])
    \/ \E r \in RowsOfKind(b, {"board"}) : r.cards # <<>>

BlockRaises(b) == Reached(b) /\ RaisesInside(b)

\* a payout row names a seated participant
HasPayout(b) ==
    \E r \in RowsOfKind(b, {"collected", "showed"}) :
        \E k \in DOMAIN b.seats : b.seats[k].name = r.name

ValidBlock(b) == Reached(b) /\ ~RaisesInside(b) /\ HasPayout(b)
NoWinnerBlock(b) == Reached(b) /\ ~RaisesInside(b) /\ ~HasPayout(b)

AtBlock == pc = "loop" /\ idx <= Len(batch)

\* C4: no block aborts the batch: when parse has returned, every block was
\* visited and every valid block has its Hand in the returned list
C4_NoBlockAbortsBatch ==
    pc = "done" =>
        /\ idx = Len(batch) + 1
        /\ \A i \in DOMAIN batch :
              ValidBlock(batch[i]) => \E k \in DOMAIN results : results[k].id = i

\* C5: a block without a determinable winner adds no Hand and adds one to
\* the failure counter
C5_NoWinnerBlockRejected ==
    [][(AtBlock /\ NoWinnerBlock(batch[idx]))
          => (results' = results /\ failed' = failed + 1)]_vars

PreconditionBlocks == {i \in DOMAIN batch : Precondition(batch[i])}

C7_ExceptionCaughtAtBlock ==
    [][(AtBlock /\ BlockRaises(batch[idx]))
          => /\ pc' \in {"loop", "done"}
             /\ failed' = failed + 1
             /\ results' = results]_vars

C7_Witness ==
    /\ pc = "done"
    /\ Len(batch) = 2
    /\ ValidBlock(batch[1])
    /\ BlockRaises(batch[2])
    /\ Len(results) = 1
    /\ results[1].id = 1
    /\ failed = 1

HasStreet(h, game_type) ==
    \E i \in DOMAIN h.rounds : h.rounds[i].game_type = game_type

\* C10: a returned Hand with a cash-tagged and a tournament-tagged street
\* has game type "cash", also after a refresh
C10_MixedHandIsCash ==
    \A k \in DOMAIN results :
        (HasStreet(results[k], "cash") /\ HasStreet(results[k], "tournament"))
            => results[k].game_type = "cash"

\* a sequence without its later repetitions
RECURSIVE FirstSeen(_)
FirstSeen(seq) ==
    IF seq = <<>> THEN <<>>
    ELSE LET f == FirstSeen(Front(seq))
         IN IF seq[Len(seq)] \in Range(f) THEN f ELSE Append(f, seq[Len(seq)])

\* the winners recorded by the streets of the hand, the streets taken by
\* precedence (table, hole cards, flop, turn, river, show down, summary)
StreetWinners(h) ==
    Concat([k \in 1..7 |->
              Concat([i \in DOMAIN h.rounds |->
                        IF ROUNDS(Lower(h.rounds[i].name)) = k - 1
                        THEN h.rounds[i].winner ELSE <<>>])])

\* C16: the winner list of a hand is the union of the winners of its
\* streets in precedence order, every name once, in first-seen order
C16_WinnersUnionFirstSeen ==
    \A k \in DOMAIN results :
        results[k].winner = FirstSeen(StreetWinners(results[k]))

C16_Witness ==
    /\ pc = "done"
    /\ lastOp = "refresh"
    /\ \E k \in DOMAIN results :
          /\ batch[results[k].id].sections = BodyTwoWinners
          /\ results[k].winner = <<Bob, Alice>>

\* the hole cards seen through the Player object an Action refers to
CardsThroughAction(h, bet) ==
    IF bet.fresh THEN <<>>
    ELSE LET i == CHOOSE i \in DOMAIN h.players : h.players[i].name = bet.player
         IN h.players[i].cards

\* C18: every Action of a returned Hand that names a participant of the
\* Hand refers to the one Player object of that name, so the hole cards of
\* the participant are seen through the Action
C18_ActionsShareParticipant ==
    \A k \in DOMAIN results :
        \A i \in DOMAIN results[k].rounds :
            \A j \in DOMAIN results[k].rounds[i].bets :
                LET h == results[k]
                    bet == h.rounds[i].bets[j]
                IN \A q \in DOMAIN h.players :
                      h.players[q].name = bet.player
                         => /\ ~bet.fresh
                            /\ CardsThroughAction(h, bet) = h.players[q].cards

HasInvalidSection(b) == ValidSections(b) # DOMAIN b.sections

\* C19: a block with a section marker that names no street adds no Hand and
\* adds one to the failure counter
C19_InvalidSectionRejected ==
    [][(AtBlock /\ Reached(batch[idx]) /\ HasInvalidSection(batch[idx]))
          => (results' = results /\ failed' = failed + 1)]_vars

\* the community cards of the block: the cards of the board rows of its
\* streets, the streets taken by precedence
BlockBoardCards(b) ==
    Concat([k \in 1..7 |->
              Concat([i \in DOMAIN b.sections |->
                        IF /\ i \in ValidSections(b)
                           /\ ROUNDS(SectionName(b.sections[i].name)) = k - 1
                        THEN Concat([j \in DOMAIN b.sections[i].rows |->
                                 IF b.sections[i].rows[j].kind = "board"
                                 THEN [c \in DOMAIN b.sections[i].rows[j].cards |->
                                         CardFromString(
                                            b.sections[i].rows[j].cards[c]).card]
                                 ELSE <<>>])
                        ELSE <<>>])])

\* a block with a hand id, a timestamp, streets that are all known, card
\* tokens that are all cards, a payout to a participant, and community
\* cards on some street
BoardBlock(b) ==
    /\ Reached(b)
    /\ b.date = "ok"
    /\ b.sections # <<>>
    /\ ~HasInvalidSection(b)
    /\ HasPayout(b)
    /\ \A r \in RowsOfKind(b, {"dealt", "board"}) :
          \A k \in DOMAIN r.cards : ValidToken(r.cards[k])
    /\ \E r \in RowsOfKind(b, {"board"}) : r.cards # <<>>

\* C21: a Hand whose streets hold community cards is constructed and
\* refreshed, and its board is the community cards of its streets in street
\* order, every card once, in the order of first insertion
C21_BoardUnionOfStreets ==
    [][(AtBlock /\ BoardBlock(batch[idx]))
          => /\ Len(results') = Len(results) + 1
             /\ results'[Len(results')].board
                   = FirstSeen(BlockBoardCards(batch[idx]))]_vars

\* the streets of the hand are in the order of the precedence table
RoundsInOrder(h) ==
    \A i, j \in DOMAIN h.rounds :
        i < j => ROUNDS(Lower(h.rounds[i].name)) < ROUNDS(Lower(h.rounds[j].name))

\* C22: in every Hand that parse returns the streets are ordered by the
\* precedence table < hole cards < flop < turn < river < show down <
\* summary, whatever the order of the sections of the block was
C22_StreetsInPrecedenceOrder ==
    \A k \in DOMAIN results : RoundsInOrder(results[k])

C22_Witness ==
    \E k \in DOMAIN results :
        /\ batch[results[k].id].sections = BodyTwoWinners
        /\ Len(results[k].rounds) = 2
        /\ results[k].rounds[1].name = "show down"
        /\ results[k].rounds[2].name = "summary"

\* C25: the block that seats Alice and Bob, with the hole-cards rows
\* "Alice: raises to 2" and "Bob: calls 2" and the summary row "Alice
\* collected (4)", yields exactly one Hand, with pot 4, winner [Alice], and
\* the net result 2 for Alice and -2 for Bob
C25_TwoStreetExample ==
    [][(/\ AtBlock
        /\ Reached(batch[idx])
        /\ batch[idx].date = "ok"
        /\ batch[idx].seats = TwoPlayers
        /\ batch[idx].sections = BodyPlain)
          => /\ Len(results') = Len(results) + 1
             /\ results'[Len(results')].pot = 4
             /\ results'[Len(results')].winner = <<Alice>>
             /\ ReadResultOf(results'[Len(results')]).val[Alice] = 2
             /\ ReadResultOf(results'[Len(results')]).val[Bob] = 0 - 2]_vars

\* C26: a block with no hand id or with no timestamp, and a tournament
\* block when tournaments are skipped, is skipped silently: no Hand is
\* added and the failure counter stays as it is
C26_SkippedSilently ==
    [][(AtBlock /\ (\/ ~batch[idx].hasId
                    \/ batch[idx].date = "none"
                    \/ (skipT /\ batch[idx].tournament)))
          => (results' = results /\ failed' = failed)]_vars

\* the hand as Hand(...) builds it from the streets of h, refreshed once
FirstRefresh(h) ==
    NewHand(h.id, h.players, h.rounds, h.hero, h.date, h.pot, h.rake).h

\* C30: while the streets of a Hand are not modified, the board, the winner
\* list and the game type of the Hand are those of its first refresh,
\* however many times refresh was called since: no card and no winner is
\* appended again
C30_RefreshIdempotent ==
    \A k \in DOMAIN results :
        /\ results[k].board = FirstRefresh(results[k]).board
        /\ results[k].winner = FirstRefresh(results[k]).winner
        /\ results[k].game_type = FirstRefresh(results[k]).game_type

C30_Witness ==
    /\ pc = "done"
    /\ lastOp = "refresh"
    /\ \E k \in DOMAIN results :
          /\ batch[results[k].id].sections = BodyMixed
          /\ results[k].winner = <<Alice>>
          /\ results[k].game_type = "tournament"

\* ----------------------------------------------------------------------
\* Specification SpecLedger: a History built over a list of Hand objects
\* (results holds the list), and get_money_history called on it
\* ----------------------------------------------------------------------
MaxHands == 2     \* hands in the list given to History

\* the streets of a hand of the list: the participant in the first seat
\* calls 2 before the flop and, when winning, collects 4 in the summary; the
\* summary street is tagged with the game type
LedgerRounds(actor, wins, game_type) ==
    <<RoundAddBet(NewRound("hole cards"), Bet(actor, "calls", 2)),
      [(IF wins THEN RoundAddBet(NewRound("summary"), Bet(actor, "collected", 4))
        ELSE NewRound("summary")) EXCEPT !.game_type = game_type]>>

\* who sits in the hand, who its designated hero is, and its game type
LedgerKinds ==
    {[hero |-> Alice, players |-> TwoPlayers, game_type |-> "cash"],
     [hero |-> Alice, players |-> TwoPlayers, game_type |-> "tournament"],
     [hero |-> Bob, players |-> TwoPlayers, game_type |-> "cash"],
     [hero |-> Alice, players |-> <<Player(Bob, 5, 2, <<>>)>>, game_type |-> "cash"],
     [hero |-> None, players |-> TwoPlayers, game_type |-> "cash"]}

LedgerHand(id, k, date, wins) ==
    NewHand(id, k.players, LedgerRounds(k.players[1].name, wins, k.game_type),
            k.hero, date, 4, 0).h

LedgerLists ==
    UNION {[1..n -> LedgerKinds \X {1, 2} \X BOOLEAN] : n \in 0..MaxHands}

InitLedger ==
    /\ HandIdle
    /\ HistIdle
    /\ batch = <<>>
    /\ skipT = TRUE
    /\ idx = 1
    /\ failed = 0
    /\ pc = "idle"
    /\ rnd = RoundIdle
    /\ LibIdle
    /\ \E l \in LedgerLists :
          results = [i \in DOMAIN l |-> LedgerHand(i, l[i][1], l[i][2], l[i][3])]

\* History(hands=results, hero=hero)
LedgerNew ==
    /\ ~hist.built
    /\ \E hero \in {None, Alice} :
          hist' = NewHistory(results, [i \in DOMAIN results |-> i], hero)
    /\ UNCHANGED <<handVars, per_hand_rows, memo, out, parseVars>>

LedgerHands == [i \in DOMAIN hist.hands |-> results[hist.hands[i]]]

\* DateSortings with the rows in any order
AnyOrderings(rows) ==
    {[i \in DOMAIN rows |-> rows[p[i]]] :
        p \in {q \in [DOMAIN rows -> DOMAIN rows] :
                  \A i, j \in DOMAIN rows : i # j => q[i] # q[j]}}

\* df.sort("date"): the rows by ascending date; the sort is not asked to
\* maintain the order of rows of equal date, so every such order can come
DateSortings(rows) ==
    {[i \in DOMAIN rows |-> rows[p[i]]] :
        p \in {q \in [DOMAIN rows -> DOMAIN rows] :
                  /\ \A i, j \in DOMAIN rows : i # j => q[i] # q[j]
                  /\ \A i, j \in DOMAIN rows :
                        i < j => rows[q[i]].date <= rows[q[j]].date}}

\* history.get_money_history(): ValueError without a hero; with no hands
\* the frame has no column "date" and the sort raises
LedgerGetMoneyHistory ==
    /\ hist.built
    /\ IF hist.hero = None \/ hist.hands = <<>>
       THEN out' = [call |-> "money", force |-> FALSE, raised |-> TRUE,
                    rows |-> <<>>]
       ELSE \E sorted \in DateSortings([i \in DOMAIN LedgerHands |->
                                           MoneyRow(LedgerHands[i], hist.hero)]) :
               out' = [call |-> "money", force |-> FALSE, raised |-> FALSE,
                       rows |-> WithCumulative(sorted)]
    /\ UNCHANGED <<handVars, hist, per_hand_rows, memo, parseVars>>

NextLedger == LedgerNew \/ LedgerGetMoneyHistory

SpecLedger == InitLedger /\ [][NextLedger]_vars

\* ----------------------------------------------------------------------
\* Properties of History over a list of hands (SpecLedger)
\* ----------------------------------------------------------------------
\* C11: a History built with a hero keeps exactly the hands of the list in
\* which the hero is one of the participants and whose game type is cash,
\* in the order of the list
C11_KeepsHeroCashHands ==
    (hist.built /\ hist.hero # None) =>
        hist.hands = SelectSeq([i \in DOMAIN results |-> i],
                               LAMBDA i : /\ hist.hero \in PlayerNames(results[i])
                                          /\ results[i].game_type = "cash")

NonDecreasing(col) == \A i \in 2..Len(col) : col[i - 1] <= col[i]

\* C14 as stated: the rows of get_money_history are ordered by date and
\* every cumulative column never decreases from a row to the next
C14_CumulativeNonDecreasing ==
    MoneyReturned =>
        /\ NonDecreasing([i \in DOMAIN out.rows |-> out.rows[i].date])
        /\ NonDecreasing([i \in DOMAIN out.rows |-> out.rows[i].cumulative_net])
        /\ NonDecreasing([i \in DOMAIN out.rows |-> out.rows[i].cumulative_total_bet])
        /\ NonDecreasing([i \in DOMAIN out.rows |-> out.rows[i].cumulative_won])
        /\ NonDecreasing([i \in DOMAIN out.rows |-> out.rows[i].cumulative_pot])
        /\ NonDecreasing([i \in DOMAIN out.rows |-> out.rows[i].cumulative_rake])

\* C14 amended: the rows are ordered by date, one row for each hand of the
\* History; every cumulative column is the running sum of its column; the
\* cumulative invested, won, pot and rake never decrease (their amounts
\* are not negative), and the cumulative net moves by the net of the row
C14_RunningSumsByDate ==
    MoneyReturned =>
        /\ Len(out.rows) = Len(hist.hands)
        /\ NonDecreasing([i \in DOMAIN out.rows |-> out.rows[i].date])
        /\ \A i \in DOMAIN out.rows :
              LET prev(c) == IF i = 1 THEN 0 ELSE c[i - 1]
              IN /\ out.rows[i].cumulative_net
                      = prev([k \in DOMAIN out.rows |-> out.rows[k].cumulative_net])
                        + out.rows[i].net
                 /\ out.rows[i].cumulative_total_bet
                      = prev([k \in DOMAIN out.rows |-> out.rows[k].cumulative_total_bet])
                        + out.rows[i].total_bet
                 /\ out.rows[i].cumulative_won
                      = prev([k \in DOMAIN out.rows |-> out.rows[k].cumulative_won])
                        + out.rows[i].won
                 /\ out.rows[i].cumulative_pot
                      = prev([k \in DOMAIN out.rows |-> out.rows[k].cumulative_pot])
                        + out.rows[i].pot
                 /\ out.rows[i].cumulative_rake
                      = prev([k \in DOMAIN out.rows |-> out.rows[k].cumulative_rake])
                        + out.rows[i].rake
                 /\ out.rows[i].net = out.rows[i].won - out.rows[i].total_bet
        /\ NonDecreasing([i \in DOMAIN out.rows |-> out.rows[i].cumulative_total_bet])
        /\ NonDecreasing([i \in DOMAIN out.rows |-> out.rows[i].cumulative_won])
        /\ NonDecreasing([i \in DOMAIN out.rows |-> out.rows[i].cumulative_pot])
        /\ NonDecreasing([i \in DOMAIN out.rows |-> out.rows[i].cumulative_rake])

\* the list holds a later hand first, and the hero loses the later hand
C14_Witness ==
    /\ MoneyReturned
    /\ Len(results) = 2
    /\ hist.hands = <<1, 2>>
    /\ results[1].date = 2
    /\ results[2].date = 1
    /\ out.rows[1].date = 1
    /\ out.rows[2].date = 2
    /\ out.rows[1].cumulative_net = 2
    /\ out.rows[2].cumulative_net = 0

\* ----------------------------------------------------------------------
\* Specification SpecRound: one call of PokerStarsParser._parse_round, the
\* Round built from the section name and filled row by row
\* ----------------------------------------------------------------------
MaxRows == 2      \* rows of the section text

Carol == "Carol"

\* the section names given to _parse_round
RoundSections ==
    {"hole cards", "Hole Cards", "FLOP", "Turn", "river", "Show Down",
     "summary", "SUMMARY", "table", "bonus", "BONUS", "Preflop", ""}

\* the rows of the section text: every kind of row, naming a seated
\* participant (Alice, Bob) or somebody who has no seat (Carol)
RoundRows ==
    {ActionRow(n, "calls", 2, TRUE, FALSE) : n \in {Alice, Carol}}
    \cup {BlindRow(n, "small blind", 1) : n \in {Alice, Carol}}
    \cup {UncalledRow(n, 2) : n \in {Alice, Carol}}
    \cup {CollectedRow(n, 4, TRUE) : n \in {Alice, Carol}}
    \cup {ShowedRow(n, 3, c) : n \in {Bob, Carol}, c \in BOOLEAN}
    \cup {DealtRow(Alice, <<<<"A", "h">>, <<"K", "h">>>>), OtherRow}

InitRound ==
    /\ HandIdle
    /\ HistIdle
    /\ ParseIdle

\* round = Round(name=section); a ValueError makes _parse_round return None
RoundCreate ==
    /\ rnd.phase = "idle"
    /\ \E section \in RoundSections :
          rnd' = IF RoundNameOk(section)
                 THEN [RoundIdle EXCEPT !.phase = "rows", !.section = section,
                                        !.round = NewRound(section),
                                        !.players = TwoPlayers]
                 ELSE [RoundIdle EXCEPT !.phase = "none", !.section = section]
    /\ UNCHANGED <<handVars, histVars, batch, skipT, idx, results, failed, pc,
                   libVars>>

\* one iteration of `for row in round_str.split("\n")`
RoundParseRow ==
    /\ rnd.phase = "rows"
    /\ rnd.n < MaxRows
    /\ \E row \in RoundRows :
          \E st \in {ParseRow([round |-> rnd.round, players |-> rnd.players,
                               exc |-> ""], row)} :
             rnd' = [rnd EXCEPT !.round = st.round, !.players = st.players,
                                !.exc = st.exc, !.row = row, !.n = @ + 1,
                                !.phase = IF st.exc # "" THEN "raised" ELSE "rows"]
    /\ UNCHANGED <<handVars, histVars, batch, skipT, idx, results, failed, pc,
                   libVars>>

NextRound == RoundCreate \/ RoundParseRow

SpecRound == InitRound /\ [][NextRound]_vars

\* ----------------------------------------------------------------------
\* Specification SpecCards: the functions of cards.py and pair_notation
\* applied to two distinct cards of the deck and to input strings
\* ----------------------------------------------------------------------
Deck ==
    {[number |-> n, suit |-> SUITS[k]] : n \in 1..13, k \in DOMAIN SUITS}

\* the strings given to Card.from_string: cards, strings of another length,
\* strings with an unknown rank or an unknown suit character, and cards in
\* brackets or behind a blank
Tokens ==
    {<<"A", "h">>, <<"T", "d">>, <<"9", "s">>, <<"2", "c">>,
     <<>>, <<"A">>, <<"1", "0", "h">>, <<"A", "h", "h">>,
     <<"1", "h">>, <<"X", "s">>, <<"0", "c">>,
     <<"A", "x">>, <<"K", "H">>, <<"X", "x">>,
     <<"[", "A", "h", "]">>, <<" ", "K", "d">>, <<"[", "A", "]">>}

InitCards ==
    /\ HandIdle
    /\ HistIdle
    /\ batch = <<>>
    /\ skipT = TRUE
    /\ idx = 1
    /\ results = <<>>
    /\ failed = 0
    /\ pc = "idle"
    /\ rnd = RoundIdle
    /\ heap = [op |-> "idle"]
    /\ \E c1 \in Deck : \E c2 \in Deck \ {c1} :
          cardIO = [op |-> "init", src |-> "", c1 |-> c1, c2 |-> c2,
                    text |-> <<>>, parsed |-> [exc |-> "", card |-> NoCard],
                    notation |-> <<>>, hand |-> <<>>]

CardsFrame ==
    UNCHANGED <<handVars, histVars, batch, skipT, idx, results, failed, pc,
                rnd, heap>>

\* str(card1)
CardStringify ==
    /\ cardIO.op = "init"
    /\ cardIO' = [cardIO EXCEPT !.op = "stringify", !.text = Stringify(cardIO.c1)]
    /\ CardsFrame

\* card1.standard_string()
CardStandardString ==
    /\ cardIO.op = "init"
    /\ cardIO' = [cardIO EXCEPT !.op = "standard_string",
                                !.text = StandardString(cardIO.c1)]
    /\ CardsFrame

\* a string of the input
CardToken ==
    /\ cardIO.op = "init"
    /\ \E tok \in Tokens : cardIO' = [cardIO EXCEPT !.op = "token", !.text = tok]
    /\ CardsFrame

\* Card.from_string(text)
CardFromStringCall ==
    /\ cardIO.op \in {"stringify", "standard_string", "token"}
    /\ cardIO' = [cardIO EXCEPT !.op = "from_string", !.src = cardIO.op,
                                !.parsed = CardFromString(cardIO.text)]
    /\ CardsFrame

\* Pair(card1, card2).hand and pair_notation(card1, card2)
CardPair ==
    /\ cardIO.op = "init"
    /\ cardIO' = [cardIO EXCEPT !.op = "pair",
                                !.hand = PairHand(cardIO.c1, cardIO.c2),
                                !.notation = pair_notation(cardIO.c1, cardIO.c2)]
    /\ CardsFrame

NextCards ==
    \/ CardStringify
    \/ CardStandardString
    \/ CardToken
    \/ CardFromStringCall
    \/ CardPair

SpecCards == InitCards /\ [][NextCards]_vars

\* ----------------------------------------------------------------------
\* Properties of the card functions (SpecCards)
\* ----------------------------------------------------------------------
\* a string without blanks and brackets that is no card: another length
\* than two, an unknown rank character or an unknown suit character
WrongToken(tok) ==
    /\ \A k \in DOMAIN tok : tok[k] \notin {" ", "[", "]"}
    /\ ~ValidToken(tok)

\* C23: parsing the string form of a card gives back an equal card, and a
\* string of the wrong length, with an unknown rank character or with an
\* unknown suit character is rejected with the format error (ValueError),
\* the same kind of error in the three cases
C23_ParseStringifyRoundTrip ==
    cardIO.op = "from_string" =>
        /\ cardIO.src = "stringify"
              => (cardIO.parsed.exc = "" /\ cardIO.parsed.card = cardIO.c1)
        /\ (cardIO.src = "token" /\ WrongToken(cardIO.text))
              => cardIO.parsed.exc = "ValueError"

\* the rank of a card with the Ace above the King
HighRank(card) == IF card.number = 1 THEN 14 ELSE card.number

\* the notation of a starting hand: the rank twice for a pocket pair, else
\* the higher rank, the lower rank and "s" (one suit) or "o"
Canonical(c1, c2) ==
    LET hi == IF HighRank(c1) >= HighRank(c2) THEN c1 ELSE c2
        lo == IF HighRank(c1) >= HighRank(c2) THEN c2 ELSE c1
    IN IF c1.number = c2.number THEN <<RankChar(hi.number), RankChar(lo.number)>>
       ELSE <<RankChar(hi.number), RankChar(lo.number),
              IF c1.suit = c2.suit THEN "s" ELSE "o">>

\* C24: the notation of a starting hand does not depend on the order of the
\* two cards nor on the suits beyond suited or offsuit: a pocket pair gives
\* the rank twice with no suffix, any other hand the high rank, the low
\* rank and "s" or "o" (Ace and King of two suits give "AKo" in both orders)
C24_CanonicalNotation ==
    cardIO.op = "pair" =>
        /\ cardIO.notation = Canonical(cardIO.c1, cardIO.c2)
        /\ cardIO.hand = Canonical(cardIO.c1, cardIO.c2)

\* ----------------------------------------------------------------------
\* Properties of _parse_round (SpecRound)
\* ----------------------------------------------------------------------
SeatedNames == {rnd.players[i].name : i \in DOMAIN rnd.players}

\* the step processes one more row of the section
RowStep == rnd.phase = "rows" /\ rnd'.n = rnd.n + 1

\* C15: a payout row ("collected" or "showed ... and won") naming a seated
\* participant adds exactly one collected Action of its amount for that
\* participant, makes the participant a winner of the street, and leaves
\* the pot of the street equal to the amount
C15_PayoutRowEffect ==
    [][(RowStep /\ rnd'.row.kind \in {"collected", "showed"}
                /\ rnd'.row.name \in SeatedNames)
          => /\ rnd'.round.bets =
                   Append(rnd.round.bets,
                          Bet(rnd'.row.name, "collected", rnd'.row.amt))
             /\ rnd'.row.name \in Range(rnd'.round.winner)
             /\ rnd'.round.pot = rnd'.row.amt]_vars

\* C17: a row of a kind that produces an Action and names somebody who has
\* no seat adds no Action to the street and raises nothing
C17_UnknownNameDropped ==
    [][(RowStep /\ rnd'.row.kind \in {"action", "blind", "uncalled",
                                      "collected", "showed"}
                /\ rnd'.row.name \notin SeatedNames)
          => /\ rnd'.round.bets = rnd.round.bets
             /\ rnd'.exc = ""]_vars

\* the section names of the model that spell one of the seven street
\* names when the case of the letters is ignored
AcceptedSections ==
    {"hole cards", "Hole Cards", "FLOP", "Turn", "river", "Show Down",
     "summary", "SUMMARY", "table"}

MaxObjects == 2   \* History (Round) objects constructed
MaxAppends == 2   \* calls of add_hand (add_player)

DefaultList == 0       \* the list bound to the default of the parameter
CallerList == 1        \* a list of the caller, passed to the constructor
OwnList(i) == i + 1    \* the list the i-th constructor call creates

\* the Hand objects of the caller: hands refer to them by index
HeapPool ==
    <<[hero |-> Alice, game_type |-> "cash"],
      [hero |-> Alice, game_type |-> "tournament"]>>

HeapFrame ==
    UNCHANGED <<handVars, histVars, batch, skipT, idx, results, failed, pc,
                rnd, cardIO>>

HeapInit(given) ==
    /\ HandIdle
    /\ HistIdle
    /\ batch = <<>>
    /\ skipT = TRUE
    /\ idx = 1
    /\ results = <<>>
    /\ failed = 0
    /\ pc = "idle"
    /\ rnd = RoundIdle
    /\ cardIO = [op |-> "idle"]
    /\ heap = [op |-> "init", obj |-> 0, n |-> 0,
               lists |-> [id \in 0..(MaxObjects + 1) |->
                            IF id = CallerList THEN given ELSE <<>>],
               objs |-> <<>>]

InitHeapHistory == \E given \in {<<>>, <<1>>, <<1, 2>>} : HeapInit(given)

\* History() or History(hands=the caller's list), with or without a hero:
\* self.hands = hands, and with a hero a new list of the hands kept
HistoryInit ==
    /\ Len(heap.objs) < MaxObjects
    /\ \E arg \in {DefaultList, CallerList} : \E hero \in {None, Alice} :
          \E i \in {Len(heap.objs) + 1} :
             heap' = [heap EXCEPT
                        !.op = "History", !.obj = i,
                        !.lists[OwnList(i)] =
                            IF hero = None THEN @
                            ELSE NewHistory(HeapPool, heap.lists[arg], hero).hands,
                        !.objs = Append(@, [ref |-> IF hero = None THEN arg
                                                    ELSE OwnList(i),
                                            hero |-> hero])]
    /\ HeapFrame

\* History.add_hand: self.hands.append(hand)
HistoryAddHand ==
    /\ heap.n < MaxAppends
    /\ \E i \in DOMAIN heap.objs : \E h \in DOMAIN HeapPool :
          heap' = [heap EXCEPT !.op = "add_hand", !.obj = i, !.n = @ + 1,
                               !.lists[heap.objs[i].ref] = Append(@, h)]
    /\ HeapFrame

NextHeapHistory == HistoryInit \/ HistoryAddHand

SpecHeapHistory == InitHeapHistory /\ [][NextHeapHistory]_vars

\* the content of the list the i-th object refers to
ListOf(hp, i) == hp.lists[hp.objs[i].ref]

\* C28: History.add_hand changes the hands of the History it is called on
\* and nothing else: the hands of every other History, also of one
\* constructed with no arguments, and the list the caller passed to the
\* constructor stay as they were
C28_AddHandChangesOwnHandsOnly ==
    [][(heap'.op = "add_hand" /\ heap'.n = heap.n + 1)
          => /\ \A j \in DOMAIN heap.objs :
                   j # heap'.obj => ListOf(heap', j) = ListOf(heap, j)
             /\ heap'.lists[CallerList] = heap.lists[CallerList]]_vars

InitHeapRound == \E given \in {<<>>, <<Alice>>} : HeapInit(given)

\* Round(name) or Round(name, players=the caller's list): a name that is no
\* street raises ValueError, else self.players = players
RoundInit ==
    /\ Len(heap.objs) < MaxObjects
    /\ \E arg \in {DefaultList, CallerList} : \E name \in {"flop", "bonus"} :
          heap' = IF RoundNameOk(name)
                  THEN [heap EXCEPT !.op = "Round", !.obj = Len(heap.objs) + 1,
                                    !.objs = Append(@, [ref |-> arg, name |-> name])]
                  ELSE [heap EXCEPT !.op = "ValueError", !.obj = 0]
    /\ HeapFrame

\* Round.add_player: self.players.append(player)
RoundAddPlayer ==
    /\ heap.n < MaxAppends
    /\ \E i \in DOMAIN heap.objs : \E player \in Names :
          heap' = [heap EXCEPT !.op = "add_player", !.obj = i, !.n = @ + 1,
                               !.lists[heap.objs[i].ref] = Append(@, player)]
    /\ HeapFrame

NextHeapRound == RoundInit \/ RoundAddPlayer

SpecHeapRound == InitHeapRound /\ [][NextHeapRound]_vars

\* C29: Round.add_player changes the player list of the Round it is called
\* on and nothing else: the players of every other Round, also of one
\* constructed without a player list, stay as they were
C29_AddPlayerChangesOwnPlayersOnly ==
    [][(heap'.op = "add_player" /\ heap'.n = heap.n + 1)
          => \A j \in DOMAIN heap.objs :
                j # heap'.obj => ListOf(heap', j) = ListOf(heap, j)]_vars
====
